---------------------------- MODULE Spec2Model ----------------------------
(***************************************************************************)
(* A model of UI.py, the TDS challan data extraction tool: the four        *)
(* layout parsers (extract_details_from_pdf, extract_table_from_pdf,       *)
(* parse_hdfc_bank_text, parse_income_tax_text) and the main processing    *)
(* loop that runs them over the uploaded files and shows the result.       *)
(*                                                                         *)
(* Representation.  A text is a sequence of lines and a line a sequence of *)
(* whitespace separated tokens (strings); the characters of a token are    *)
(* given by Chars, so that the numeric conversions are computed.  A table  *)
(* cell is a string, or None.  A pandas DataFrame is the sequence of its   *)
(* rows, a row being a function from column names to values; pd.concat is  *)
(* the concatenation of these sequences.  A Python call either returns or  *)
(* raises: an operator that models a call that can raise yields a record   *)
(* [exc |-> "", val |-> v] or [exc |-> type, msg |-> str(e)].              *)
(***************************************************************************)
EXTENDS Integers, Sequences, FiniteSets, TLC

VARIABLES
    option,             \* st.sidebar.radio "Select Document Type"
    payment_option,     \* st.sidebar.radio "Select Payment Source"
    uploaded_files,     \* st.session_state.uploaded_files
    idx,                \* position of the main loop in uploaded_files
    extracted_data,     \* the list of per-document DataFrames (line 194)
    st_errors,          \* the st.error calls made so far (line 219)
    progress,           \* numerator of the last progress.progress call
    final_combined_df,  \* line 223
    shown,              \* what the results section displayed
    pc,                 \* "loop" | "display" | "done"
    arg,                \* argument of the parser under test
    ret,                \* its result
    called,             \* whether the parser under test has run
    lines,              \* parse_income_tax_text: text.split("\n")
    li,                 \* parse_income_tax_text: lines already scanned
    details             \* parse_income_tax_text: the dict being filled

vars == <<option, payment_option, uploaded_files, idx, extracted_data,
          st_errors, progress, final_combined_df, shown, pc,
          arg, ret, called, lines, li, details>>

batchVars == <<option, payment_option, uploaded_files, idx, extracted_data,
               st_errors, progress, final_combined_df, shown, pc>>
unitVars == <<arg, ret, called>>
scanVars == <<lines, li, details>>

-----------------------------------------------------------------------------
(* Bounds of the model. *)

MaxRows == 3       \* raw table rows of a document of the table specification
MaxDocs == 3       \* uploaded files of a batch
MaxSegments == 3   \* segments of the text of the details specification
MaxScan == 3       \* lines of the text of the prefix-parser specification

-----------------------------------------------------------------------------
(* Generic helpers. *)

None == "<None>"

Range(s) == {s[i] : i \in 1..Len(s)}

RECURSIVE SeqsUpTo(_, _)
SeqsUpTo(S, n) ==
    IF n = 0 THEN {<<>>}
    ELSE LET shorter == SeqsUpTo(S, n - 1)
         IN  shorter \cup {Append(s, x) : s \in {t \in shorter : Len(t) = n - 1}, x \in S}

RECURSIVE Concat(_)
Concat(ss) == IF ss = <<>> THEN <<>> ELSE Head(ss) \o Concat(Tail(ss))

Returned(v) == [exc |-> "", val |-> v]
Raised(type, message) == [exc |-> type, msg |-> message]

\* pd.DataFrame({"Error": [str(e)]}): one row, one column
ErrorFrame(message) == <<[Error |-> message]>>

-----------------------------------------------------------------------------
(* Documents.  pdfplumber.open / PyPDF2.PdfReader either decode the        *)
(* uploaded file or raise (readable = FALSE).  A decoded document has its  *)
(* text (lines of tokens) and its pages, each a sequence of tables, each a *)
(* sequence of raw rows, each a sequence of cells.                         *)

Doc(n, r, t, p) == [name |-> n, readable |-> r, text |-> t, pages |-> p]

\* str(e) is a sequence of parts: the fixed text, then the literal it quotes
OpenErrorMsg == <<"No /Root object! - Is this really a PDF?">>

-----------------------------------------------------------------------------
(* extract_table_from_pdf, lines 51-81. *)

\* line 64; the rupee sign of the last three labels is written Rs.
headers == <<"Sr. No.", "Return Type", "No. of Deductee / Party Records",
             "Amount Paid (Rs.)", "Tax Deducted / Collected (Rs.)",
             "Tax Deposited (Rs.)">>

\* lines 54-62: every row of every non-empty table of every page, in order
FlattenRows(pages) == Concat([p \in 1..Len(pages) |-> Concat(pages[p])])

\* line 68
KeepRow(row) == Len(row) = Len(headers)

\* line 69: dict(zip(headers, row))
ZipHeaders(row) == [h \in Range(headers) |->
                       row[CHOOSE i \in 1..Len(headers) : headers[i] = h]]

\* lines 65-70
TableData(rawRows) ==
    LET kept == SelectSeq(rawRows, KeepRow)
    IN  [i \in 1..Len(kept) |-> ZipHeaders(kept[i])]

\* lines 72-73
PopHeaderAny(table_data) ==
    IF Len(table_data) > 0 /\ table_data[1]["Sr. No."] = "Sr. No."
    THEN Tail(table_data) ELSE table_data
PopHeader(table_data) ==
    IF Len(table_data) > 1 /\ table_data[1]["Sr. No."] = "Sr. No."
    THEN Tail(table_data) ELSE table_data

\* pd.DataFrame(list of dicts).columns: the keys of the dicts
Columns(rows) == UNION {DOMAIN rows[i] : i \in 1..Len(rows)}

AllNA(row) == \A h \in Range(headers) : row[h] = None

DropNAMsg == <<"['Sr. No.', 'Return Type', 'No. of Deductee / Party Records', 'Amount Paid (Rs.)', 'Tax Deducted / Collected (Rs.)', 'Tax Deposited (Rs.)']">>

\* line 76: df.dropna(subset=headers, how='all'); pandas raises KeyError for
\* the labels of subset that are not columns of df
DropNA(rows) ==
    IF Range(headers) \subseteq Columns(rows)
    THEN Returned(SelectSeq(rows, LAMBDA r : ~AllNA(r)))
    ELSE Raised("KeyError", DropNAMsg)

\* lines 51-81, the except clause included: always returns a DataFrame
extract_table_from_pdf(pdf) ==
    IF ~pdf.readable THEN ErrorFrame(OpenErrorMsg)
    ELSE LET dropped == DropNA(PopHeader(TableData(FlattenRows(pdf.pages))))
         IN  IF dropped.exc = "" THEN dropped.val ELSE ErrorFrame(dropped.msg)

-----------------------------------------------------------------------------
(* Inputs of the table specification: up to MaxRows raw rows, each placed  *)
(* in the current table, in a new table of the page, or on a new page.     *)

HeaderRow == headers
DataRow1 == <<"1", "24Q", "12", "1000.00", "100.00", "100.00">>
DataRow2 == <<"2", "26Q", None, "500.00", "50.00", "50.00">>
BlankRow == <<None, None, None, None, None, None>>
ShortRow == <<"3", "27Q", "4", "10.00", "1.00">>
LongRow == <<"4", "27EQ", "5", "20.00", "2.00", "2.00", "extra">>

RawRows == {HeaderRow, DataRow1, DataRow2, BlankRow, ShortRow, LongRow}
Breaks == {"row", "table", "page"}

RECURSIVE BuildPages(_)
\* the pages of a sequence of <<break, row>> pairs (the first pair opens
\* page 1, table 1 whatever its break)
BuildPages(s) ==
    IF s = <<>> THEN <<>>
    ELSE LET n == Len(s)
             before == BuildPages(SubSeq(s, 1, n - 1))
             b == s[n][1]
             r == s[n][2]
             np == Len(before)
         IN  IF np = 0 THEN << << <<r>> >> >>
             ELSE IF b = "page" THEN Append(before, << <<r>> >>)
             ELSE LET last == before[np]
                      nt == Len(last)
                  IN  IF b = "table"
                      THEN [before EXCEPT ![np] = Append(last, <<r>>)]
                      ELSE [before EXCEPT ![np][nt] = Append(last[nt], r)]

PageLayouts == {BuildPages(s) : s \in SeqsUpTo(Breaks \X RawRows, MaxRows)}
                   \cup {<< <<>> >>, << << <<>> >> >>}

TableDocs == {Doc("a.pdf", TRUE, <<>>, p) : p \in PageLayouts}
                 \cup {Doc("a.pdf", FALSE, <<>>, <<>>)}

-----------------------------------------------------------------------------
(* Values of the variables a specification does not use. *)

BatchIdle ==
    /\ option = "TDS Returns"
    /\ payment_option = None
    /\ uploaded_files = <<>>
    /\ idx = 0
    /\ extracted_data = <<>>
    /\ st_errors = <<>>
    /\ progress = 0
    /\ final_combined_df = <<>>
    /\ shown = "info"
    /\ pc = "idle"

UnitIdle == arg = <<>> /\ ret = <<>> /\ called = FALSE

ScanIdle == lines = <<>> /\ li = 0 /\ details = <<>>

-----------------------------------------------------------------------------
(* The table specification: extract_table_from_pdf on every document of    *)
(* TableDocs.                                                              *)

InitTable ==
    /\ arg \in TableDocs
    /\ ret = <<>>
    /\ called = FALSE
    /\ BatchIdle
    /\ ScanIdle

CallTable ==
    /\ ~called
    /\ ret' = extract_table_from_pdf(arg)
    /\ called' = TRUE
    /\ UNCHANGED <<arg, batchVars, scanVars>>

NextTable == CallTable

SpecTable == InitTable /\ [][NextTable]_vars

(* What the claims about the table say, in terms of the raw rows. *)

RECURSIVE RowsOfTables(_)
RowsOfTables(tables) ==
    IF tables = <<>> THEN <<>>
    ELSE RowsOfTables(SubSeq(tables, 1, Len(tables) - 1)) \o tables[Len(tables)]

RECURSIVE RowsOfPages(_)
RowsOfPages(pages) ==
    IF pages = <<>> THEN <<>>
    ELSE RowsOfPages(SubSeq(pages, 1, Len(pages) - 1)) \o RowsOfTables(pages[Len(pages)])

\* the six-cell raw rows, in page order then in-table order, as table rows
SixCellRows(pages) ==
    LET raw == RowsOfPages(pages)
        six == SelectSeq(raw, LAMBDA r : Len(r) = 6)
    IN  [i \in 1..Len(six) |->
            [h \in Range(headers) |->
                six[i][CHOOSE k \in 1..6 : headers[k] = h]]]

IsHeader(row) == row["Sr. No."] = "Sr. No."
IsBlank(row) == \A h \in DOMAIN row : row[h] = None
NonBlank(rows) == SelectSeq(rows, LAMBDA r : ~IsBlank(r))
HasErrorRow(df) == \E i \in 1..Len(df) : "Error" \in DOMAIN df[i]

\* C4: whenever no row survives (no tables, or every raw row has a cell
\* count other than six), extract_table_from_pdf returns a table with zero
\* rows and no error outcome.
C4_EmptyTableNoError ==
    (called /\ arg.readable /\ SixCellRows(arg.pages) = <<>>)
        => (ret = <<>> /\ ~HasErrorRow(ret))

\* C5 as stated: if the first surviving six-cell row is the header it is
\* removed from the output whatever the number of surviving rows, the
\* header-only table included; if it is not a header nothing is removed.
C5_HeaderAlwaysRemoved ==
    LET six == SixCellRows(arg.pages)
    IN  (called /\ arg.readable /\ six # <<>>)
            => ret = NonBlank(IF IsHeader(six[1]) THEN Tail(six) ELSE six)

\* C5 amended: the first surviving row is removed exactly when it is the
\* header and at least two rows survive; a header row that is the only
\* surviving row is kept as a data row; if the first surviving row is not
\* a header no row is removed by the header step (rows whose six cells are
\* all empty are dropped afterwards in every case).
C5_HeaderRemovedIfMoreRows ==
    LET six == SixCellRows(arg.pages)
    IN  (called /\ arg.readable /\ six # <<>>)
            => ret = NonBlank(IF IsHeader(six[1]) /\ Len(six) >= 2
                              THEN Tail(six) ELSE six)

C5_Witness ==
    LET six == SixCellRows(arg.pages)
    IN  /\ called /\ arg.readable
        /\ Len(six) = 3 /\ IsHeader(six[1]) /\ IsHeader(six[3])
        /\ Len(arg.pages) = 2
        /\ Len(ret) = 2 /\ ret[1]["Sr. No."] = "1" /\ IsHeader(ret[2])

\* C6: for every sequence of pages and tables the output rows are exactly
\* the raw rows with six cells, in page order then in-table order, minus at
\* most one header row removed from the very first position.
C6_SixCellRowsInOrder ==
    LET six == SixCellRows(arg.pages)
    IN  (called /\ arg.readable)
            => \/ ret = six
               \/ six # <<>> /\ IsHeader(six[1]) /\ ret = Tail(six)

-----------------------------------------------------------------------------
(* extract_details_from_pdf, lines 9-48.  The four patterns are matched on *)
(* the tokens of the text (\s+ of a pattern is the gap between two tokens, *)
(* \s* a gap or nothing); what a pattern captures from a token is given by *)
(* the tables below.                                                       *)

\* lines 15-16
AllTokens(text) == Concat(text)

\* "Form" under re.IGNORECASE, unanchored: a token that ends in form
IsFormWord(tok) == tok \in {"Form", "FORM", "form", "Platform"}
IsNoWord(tok) == tok \in {"No.", "NO.", "no."}

\* (\d{2}\w) at the start of a token
FormCode(tok) ==
    CASE tok = "26Q" -> "26Q"
      [] tok = "24Q" -> "24Q"
      [] tok = "27EQ" -> "27E"
      [] tok = "27Q" -> "27Q"
      [] OTHER -> None

\* No\.\s*(\d{2}\w) inside one token
GluedFormCode(tok) ==
    CASE tok = "No.26Q" -> "26Q"
      [] tok = "No.24Q" -> "24Q"
      [] OTHER -> None

\* form_no_box_pattern (line 21) matched at token i: the capture and the
\* number of tokens consumed, or None
FormNoAt(toks, i) ==
    IF ~IsFormWord(toks[i]) \/ i + 1 > Len(toks) THEN None
    ELSE IF GluedFormCode(toks[i + 1]) # None
         THEN <<GluedFormCode(toks[i + 1]), 2>>
    ELSE IF IsNoWord(toks[i + 1]) /\ i + 2 <= Len(toks)
            /\ FormCode(toks[i + 2]) # None
         THEN <<FormCode(toks[i + 2]), 3>>
    ELSE None

RECURSIVE FindAllFrom(_, _)
\* re.findall from token i on: the captures of the non-overlapping matches,
\* left to right
FindAllFrom(toks, i) ==
    IF i > Len(toks) THEN <<>>
    ELSE LET m == FormNoAt(toks, i)
         IN  IF m = None THEN FindAllFrom(toks, i + 1)
             ELSE <<m[1]>> \o FindAllFrom(toks, i + m[2])

\* line 31
form_no_matches(toks) == FindAllFrom(toks, 1)

\* line 32
FormNoFirst(matches) == IF Len(matches) > 0 THEN matches[1] ELSE "Not found"
FormNo(matches) == IF Len(matches) > 1 THEN matches[2] ELSE "Not found"

\* (Q\d) at the start of a token
PeriodCode(tok) ==
    CASE tok = "Q1" -> "Q1"
      [] tok = "Q2" -> "Q2"
      [] OTHER -> None

\* (\d{2}/\d{2}/\d{2}) at the start of a token
ShortDate(tok) ==
    CASE tok = "01/04/23" -> "01/04/23"
      [] tok = "30/06/23" -> "30/06/23"
      [] tok = "15/07/2023" -> "15/07/20"
      [] OTHER -> None

\* (\d{2}/\d{2}/\d{4}) at the start of a token
LongDate(tok) == IF tok = "15/07/2023" THEN "15/07/2023" ELSE None

\* f"{date_range.group(1)} to {date_range.group(2)}", line 40
RangeText(d1, d2) ==
    CASE d1 = "01/04/23" ->
             (CASE d2 = "01/04/23" -> "01/04/23 to 01/04/23"
                [] d2 = "30/06/23" -> "01/04/23 to 30/06/23"
                [] d2 = "15/07/20" -> "01/04/23 to 15/07/20")
      [] d1 = "30/06/23" ->
             (CASE d2 = "01/04/23" -> "30/06/23 to 01/04/23"
                [] d2 = "30/06/23" -> "30/06/23 to 30/06/23"
                [] d2 = "15/07/20" -> "30/06/23 to 15/07/20")
      [] d1 = "15/07/20" ->
             (CASE d2 = "01/04/23" -> "15/07/20 to 01/04/23"
                [] d2 = "30/06/23" -> "15/07/20 to 30/06/23"
                [] d2 = "15/07/20" -> "15/07/20 to 15/07/20")

\* pattern.search: the first of the positions where the pattern matches,
\* or 0
FirstPos(positions) ==
    IF positions = {} THEN 0
    ELSE CHOOSE i \in positions : \A j \in positions : i <= j

PeriodAt(toks, i) ==
    toks[i] = "period" /\ i + 1 <= Len(toks) /\ PeriodCode(toks[i + 1]) # None
DateRangeAt(toks, i) ==
    /\ toks[i] = "(From" /\ i + 3 <= Len(toks)
    /\ ShortDate(toks[i + 1]) # None /\ toks[i + 2] = "to"
    /\ ShortDate(toks[i + 3]) # None
DateAt(toks, i) ==
    toks[i] = "Date:" /\ i + 1 <= Len(toks) /\ LongDate(toks[i + 1]) # None

\* lines 38-43
DetailsRow(toks) ==
    LET p == FirstPos({i \in 1..Len(toks) : PeriodAt(toks, i)})
        r == FirstPos({i \in 1..Len(toks) : DateRangeAt(toks, i)})
        d == FirstPos({i \in 1..Len(toks) : DateAt(toks, i)})
    IN  [Period |-> IF p # 0 THEN PeriodCode(toks[p + 1]) ELSE "Not found",
         DateRange |-> IF r # 0
                       THEN RangeText(ShortDate(toks[r + 1]), ShortDate(toks[r + 3]))
                       ELSE "Not found",
         FormNo |-> FormNo(form_no_matches(toks)),
         Date |-> IF d # 0 THEN LongDate(toks[d + 1]) ELSE "Not found"]

\* lines 9-48, the except clause included: always returns a DataFrame
extract_details_from_pdf(pdf) ==
    IF ~pdf.readable THEN ErrorFrame(OpenErrorMsg)
    ELSE <<DetailsRow(AllTokens(pdf.text))>>

-----------------------------------------------------------------------------
(* The details specification: extract_details_from_pdf on the texts made   *)
(* of up to MaxSegments segments.                                           *)

Segments ==
    {<<"Form", "No.", "26Q">>, <<"FORM", "NO.", "24Q">>, <<"Form", "No.", "27EQ">>,
     <<"Form", "No.24Q">>, <<"Form", "No.">>, <<"27Q">>, <<"Platform">>,
     <<"period", "Q1">>}

DetailsDocs ==
    {Doc("a.pdf", TRUE, t, <<>>) : t \in SeqsUpTo(Segments, MaxSegments)}
        \cup {Doc("a.pdf", FALSE, <<>>, <<>>)}

InitDetails ==
    /\ arg \in DetailsDocs
    /\ ret = <<>>
    /\ called = FALSE
    /\ BatchIdle
    /\ ScanIdle

CallDetails ==
    /\ ~called
    /\ ret' = extract_details_from_pdf(arg)
    /\ called' = TRUE
    /\ UNCHANGED <<arg, batchVars, scanVars>>

NextDetails == CallDetails

SpecDetails == InitDetails /\ [][NextDetails]_vars

\* the token positions where a form-number match starts, and its capture
FormNoStarts(toks) ==
    {i \in 1..Len(toks) :
        /\ toks[i] \in {"Form", "FORM", "form", "Platform"}
        /\ \/ i + 1 <= Len(toks) /\ toks[i + 1] \in {"No.26Q", "No.24Q"}
           \/ /\ i + 2 <= Len(toks)
              /\ toks[i + 1] \in {"No.", "NO.", "no."}
              /\ toks[i + 2] \in {"26Q", "24Q", "27Q", "27EQ"}}

CaptureAt(toks, i) ==
    LET t == IF toks[i + 1] \in {"No.", "NO.", "no."} THEN toks[i + 2] ELSE toks[i + 1]
    IN  CASE t \in {"26Q", "No.26Q"} -> "26Q"
          [] t \in {"24Q", "No.24Q"} -> "24Q"
          [] t = "27Q" -> "27Q"
          [] t = "27EQ" -> "27E"

\* C9: the "Form No." field is the second form-number match in document
\* order when at least two matches exist, and "Not found" when there are
\* zero or exactly one match; no exception is raised (no Error row).
C9_SecondFormNo ==
    LET toks == Concat(arg.text)
        starts == FormNoStarts(toks)
    IN  (called /\ arg.readable) =>
            /\ Len(ret) = 1
            /\ "Error" \notin DOMAIN ret[1]
            /\ IF Cardinality(starts) >= 2
               THEN \E i \in starts :
                        /\ Cardinality({j \in starts : j < i}) = 1
                        /\ ret[1].FormNo = CaptureAt(toks, i)
               ELSE ret[1].FormNo = "Not found"

C9_Witness ==
    /\ called /\ arg.readable
    /\ Cardinality(FormNoStarts(Concat(arg.text))) = 3
    /\ ret[1].FormNo = "24Q"
    /\ arg.text[1] = <<"Form", "No.", "26Q">>
    /\ arg.text[3] = <<"Form", "No.", "27EQ">>

-----------------------------------------------------------------------------
(* parse_income_tax_text, lines 117-139.  A line is a sequence of pieces:  *)
(* a label, a separator (":" or "Rs" for the rupee sign), a blank " ", or  *)
(* a value.  `label in line` is membership of the piece, startswith is the *)
(* first piece, split(sep)[-1] the pieces after the last sep.              *)

LastIndexOf(line, piece) ==
    IF piece \in Range(line)
    THEN CHOOSE i \in 1..Len(line) :
             line[i] = piece /\ \A j \in (i + 1)..Len(line) : line[j] # piece
    ELSE 0

FirstIndexOf(line, piece) ==
    IF piece \in Range(line)
    THEN CHOOSE i \in 1..Len(line) :
             line[i] = piece /\ \A j \in 1..(i - 1) : line[j] # piece
    ELSE Len(line) + 1

\* line.split(sep)[-1]
AfterLast(line, sep) == SubSeq(line, LastIndexOf(line, sep) + 1, Len(line))

\* line.split(sep)[0]
BeforeFirst(line, sep) == SubSeq(line, 1, FirstIndexOf(line, sep) - 1)

RECURSIVE LStrip(_)
LStrip(line) ==
    IF line # <<>> /\ Head(line) = " " THEN LStrip(Tail(line)) ELSE line

RECURSIVE RStrip(_)
RStrip(line) ==
    IF line # <<>> /\ line[Len(line)] = " "
    THEN RStrip(SubSeq(line, 1, Len(line) - 1)) ELSE line

\* str.strip()
Strip(line) == LStrip(RStrip(line))

StartsWith(line, marker) == line # <<>> /\ line[1] = marker

\* details[key] = value
SetKey(dict, key, value) ==
    [k \in DOMAIN dict \cup {key} |-> IF k = key THEN value ELSE dict[k]]

SetKeyIfAbsent(dict, key, value) ==
    IF key \in DOMAIN dict THEN dict ELSE SetKey(dict, key, value)

\* lines 121-138: the if/elif chain applied to one line
ParseLineKeepFirst(dict, line) ==
    IF "Nature of Payment" \in Range(line)
    THEN SetKeyIfAbsent(dict, "Nature of Payment", Strip(AfterLast(line, ":")))
    ELSE IF "Amount (in Rs.)" \in Range(line)
    THEN SetKeyIfAbsent(dict, "Amount (in Rs.)", Strip(AfterLast(line, ":")))
    ELSE IF "Challan No" \in Range(line)
    THEN SetKeyIfAbsent(dict, "Challan No.", Strip(AfterLast(line, ":")))
    ELSE IF "Tender Date" \in Range(line)
    THEN SetKeyIfAbsent(dict, "Tender Date",
                Strip(BeforeFirst(AfterLast(line, ":"), "Tax Breakup Details")))
    ELSE IF StartsWith(line, "DInterest")
    THEN SetKeyIfAbsent(dict, "Interest", Strip(AfterLast(line, "Rs")))
    ELSE IF StartsWith(line, "EPenalty")
    THEN SetKeyIfAbsent(dict, "Penalty", Strip(AfterLast(line, "Rs")))
    ELSE IF StartsWith(line, "FFee under section 234E")
    THEN SetKeyIfAbsent(dict, "Fee (Sec. 234E)", Strip(AfterLast(line, "Rs")))
    ELSE IF StartsWith(line, "Total (A+B+C+D+E+F)")
    THEN SetKeyIfAbsent(dict, "TOTAL", Strip(AfterLast(line, "Rs")))
    ELSE dict
ParseLine(dict, line) ==
    IF "Nature of Payment" \in Range(line)
    THEN SetKey(dict, "Nature of Payment", Strip(AfterLast(line, ":")))
    ELSE IF "Amount (in Rs.)" \in Range(line)
    THEN SetKey(dict, "Amount (in Rs.)", Strip(AfterLast(line, ":")))
    ELSE IF "Challan No" \in Range(line)
    THEN SetKey(dict, "Challan No.", Strip(AfterLast(line, ":")))
    ELSE IF "Tender Date" \in Range(line)
    THEN SetKey(dict, "Tender Date",
                Strip(BeforeFirst(AfterLast(line, ":"), "Tax Breakup Details")))
    ELSE IF StartsWith(line, "DInterest")
    THEN SetKey(dict, "Interest", Strip(AfterLast(line, "Rs")))
    ELSE IF StartsWith(line, "EPenalty")
    THEN SetKey(dict, "Penalty", Strip(AfterLast(line, "Rs")))
    ELSE IF StartsWith(line, "FFee under section 234E")
    THEN SetKey(dict, "Fee (Sec. 234E)", Strip(AfterLast(line, "Rs")))
    ELSE IF StartsWith(line, "Total (A+B+C+D+E+F)")
    THEN SetKey(dict, "TOTAL", Strip(AfterLast(line, "Rs")))
    ELSE dict

RECURSIVE ParseLines(_, _)
\* lines 118-139: the loop over the lines, from the dict so far
ParseLines(dict, rest) ==
    IF rest = <<>> THEN dict
    ELSE ParseLines(ParseLine(dict, Head(rest)), Tail(rest))

parse_income_tax_text(text) == ParseLines(<<>>, text)

-----------------------------------------------------------------------------
(* The scan specification: the loop of parse_income_tax_text, one line per *)
(* step, over the texts of one to MaxScan lines.                           *)

ScanLines ==
    {<<"Nature of Payment", ":", " ", "TDS on Salary">>,
     <<"Nature of Payment", ":", "94C", " ">>,
     <<"Amount (in Rs.)", ":", "1,000">>,
     <<"Challan No", ":", "00123", " ", "Tender Date", ":", "01/02/2024">>,
     <<"Tender Date", ":", " ", "01/02/2024", " ", "Tax Breakup Details">>,
     <<"Tender Date", ":", "05/03/2024">>,
     <<"DInterest", "Rs", "50">>,
     <<"DInterest", " ", "Nature of Payment", ":", "Interest">>,
     <<"EPenalty", "Rs", "0">>,
     <<"FFee under section 234E", "Rs", "200">>,
     <<"Total (A+B+C+D+E+F)", "Rs", "1,250">>,
     <<" ", "DInterest", "Rs", "75">>,
     <<"Assessment Year", ":", "2024-25">>}

InitScan ==
    /\ lines \in SeqsUpTo(ScanLines, MaxScan) \ {<<>>}
    /\ li = 0
    /\ details = <<>>
    /\ BatchIdle
    /\ UnitIdle

\* one iteration of the for loop of line 120
ScanLine ==
    /\ li < Len(lines)
    /\ details' = ParseLine(details, lines[li + 1])
    /\ li' = li + 1
    /\ UNCHANGED <<lines, batchVars, unitVars>>

NextScan == ScanLine

SpecScan == InitScan /\ [][NextScan]_vars

\* the ordered list of label predicates and the field each is bound to
Predicates ==
    <<[kind |-> "in", label |-> "Nature of Payment", field |-> "Nature of Payment"],
      [kind |-> "in", label |-> "Amount (in Rs.)", field |-> "Amount (in Rs.)"],
      [kind |-> "in", label |-> "Challan No", field |-> "Challan No."],
      [kind |-> "in", label |-> "Tender Date", field |-> "Tender Date"],
      [kind |-> "start", label |-> "DInterest", field |-> "Interest"],
      [kind |-> "start", label |-> "EPenalty", field |-> "Penalty"],
      [kind |-> "start", label |-> "FFee under section 234E", field |-> "Fee (Sec. 234E)"],
      [kind |-> "start", label |-> "Total (A+B+C+D+E+F)", field |-> "TOTAL"]>>

Fields == {Predicates[i].field : i \in 1..Len(Predicates)}

Holds(pred, line) ==
    IF pred.kind = "in" THEN \E i \in 1..Len(line) : line[i] = pred.label
    ELSE Len(line) >= 1 /\ line[1] = pred.label

\* the field bound to the first predicate the line matches, or None
BoundField(line) ==
    LET hits == {i \in 1..Len(Predicates) : Holds(Predicates[i], line)}
    IN  IF hits = {} THEN None
        ELSE Predicates[CHOOSE i \in hits : \A j \in hits : i <= j].field

\* the value the parser extracts from a line bound to a field: a dict that
\* held nothing before holds exactly that value afterwards
ValueOf(line) == ParseLine(<<>>, line)[BoundField(line)]

\* C10: after any number of scanned lines, each field holds the value
\* extracted from the last scanned line bound to it (a line being bound to
\* the field of the first predicate it matches, and to nothing if it
\* matches none), and a field no scanned line was bound to is absent.
C10_LastMatchWins ==
    /\ DOMAIN details \subseteq Fields
    /\ \A f \in Fields :
        LET bound == {i \in 1..li : BoundField(lines[i]) = f}
        IN  IF bound = {} THEN f \notin DOMAIN details
            ELSE /\ f \in DOMAIN details
                 /\ details[f] = ValueOf(lines[CHOOSE i \in bound : \A j \in bound : j <= i])

C10_Witness ==
    /\ li = 3
    /\ lines[1] = <<"Nature of Payment", ":", " ", "TDS on Salary">>
    /\ lines[2] = <<"Assessment Year", ":", "2024-25">>
    /\ lines[3] = <<"Nature of Payment", ":", "94C", " ">>
    /\ details = [k \in {"Nature of Payment"} |-> <<"94C">>]

-----------------------------------------------------------------------------
(* parse_hdfc_bank_text, lines 92-106.  A line is the sequence of its      *)
(* whitespace separated tokens; a label of several words ("Basic Tax",     *)
(* "Drawn on") is the run of its tokens.  float() and int() are computed   *)
(* on the characters of a token; a float is kept in hundredths.            *)

Digits == {"0", "1", "2", "3", "4", "5", "6", "7", "8", "9"}

DigitValue(c) ==
    CASE c = "0" -> 0 [] c = "1" -> 1 [] c = "2" -> 2 [] c = "3" -> 3
      [] c = "4" -> 4 [] c = "5" -> 5 [] c = "6" -> 6 [] c = "7" -> 7
      [] c = "8" -> 8 [] c = "9" -> 9

\* the characters of the tokens that hold digits; any other token has a
\* character that is no part of a number
Chars(tok) ==
    CASE tok = "1,000.00" -> <<"1", ",", "0", "0", "0", ".", "0", "0">>
      [] tok = "1,250.00" -> <<"1", ",", "2", "5", "0", ".", "0", "0">>
      [] tok = "200.00" -> <<"2", "0", "0", ".", "0", "0">>
      [] tok = "50.00" -> <<"5", "0", ".", "0", "0">>
      [] tok = "0.00" -> <<"0", ".", "0", "0">>
      [] tok = "1.5" -> <<"1", ".", "5">>
      [] tok = "12345" -> <<"1", "2", "3", "4", "5">>
      [] tok = "00042" -> <<"0", "0", "0", "4", "2">>
      [] tok = "1,2" -> <<"1", ",", "2">>
      [] tok = "12" -> <<"1", "2">>
      [] tok = "." -> <<".">>
      [] OTHER -> <<"x">>

\* s.replace(",", "")
DropCommas(chars) == SelectSeq(chars, LAMBDA c : c # ",")

RECURSIVE DigitsValue(_)
DigitsValue(chars) ==
    IF chars = <<>> THEN 0
    ELSE 10 * DigitsValue(SubSeq(chars, 1, Len(chars) - 1)) + DigitValue(chars[Len(chars)])

AllDigits(chars) == \A i \in 1..Len(chars) : chars[i] \in Digits

\* int(s): decimal digits only
IntOk(chars) == chars # <<>> /\ AllDigits(chars)

\* float(s): digits with at most one point and at least one digit
FloatOk(chars) ==
    LET points == {i \in 1..Len(chars) : chars[i] = "."}
    IN  /\ Cardinality(points) <= 1
        /\ AllDigits(SelectSeq(chars, LAMBDA c : c # "."))
        /\ Len(chars) > Cardinality(points)

\* the value of float(s) in hundredths (the tokens have at most two decimals)
FloatValue(chars) ==
    LET p == IF "." \in Range(chars)
             THEN CHOOSE i \in 1..Len(chars) : chars[i] = "." ELSE Len(chars) + 1
        whole == SubSeq(chars, 1, p - 1)
        frac == SubSeq(chars, p + 1, Len(chars))
        padded == SubSeq(frac \o <<"0", "0">>, 1, 2)
    IN  100 * DigitsValue(whole) + DigitsValue(padded)

IndexErrorMsg == <<"list index out of range">>

\* float(text.replace(",", "")) of a text given by its tokens: a text of
\* several tokens has inner blanks, an empty one no digit
ToFloat(toks) ==
    IF Len(toks) = 1 /\ FloatOk(DropCommas(Chars(toks[1])))
    THEN Returned(FloatValue(DropCommas(Chars(toks[1]))))
    ELSE Raised("ValueError", <<"could not convert string to float:">> \o toks)

ToInt(toks) ==
    IF Len(toks) = 1 /\ IntOk(DropCommas(Chars(toks[1])))
    THEN Returned(DigitsValue(DropCommas(Chars(toks[1]))))
    ELSE Raised("ValueError", <<"invalid literal for int() with base 10:">> \o toks)

\* lines[n] for a Python index n
LineAt(text, n) ==
    IF n + 1 <= Len(text) THEN Returned(text[n + 1])
    ELSE Raised("IndexError", IndexErrorMsg)

\* line.split()[k] for a Python index k >= 0
TokenAt(line, k) ==
    IF k + 1 <= Len(line) THEN Returned(<<line[k + 1]>>)
    ELSE Raised("IndexError", IndexErrorMsg)

\* line.split()[-1]
LastToken(line) ==
    IF line # <<>> THEN Returned(<<line[Len(line)]>>)
    ELSE Raised("IndexError", IndexErrorMsg)

\* the first position from which the tokens of label run, or 0
FindRun(line, label) ==
    LET at == {i \in 1..(Len(line) - Len(label) + 1) :
                  SubSeq(line, i, i + Len(label) - 1) = label}
    IN  IF at = {} THEN 0 ELSE CHOOSE i \in at : \A j \in at : i <= j

RECURSIVE RemoveRuns(_, _)
\* line.replace(label, "")
RemoveRuns(line, label) ==
    LET i == FindRun(line, label)
    IN  IF i = 0 THEN line
        ELSE SubSeq(line, 1, i - 1)
                 \o RemoveRuns(SubSeq(line, i + Len(label), Len(line)), label)

\* line.split(label)[0]
BeforeRun(line, label) ==
    LET i == FindRun(line, label)
    IN  IF i = 0 THEN line ELSE SubSeq(line, 1, i - 1)

RECURSIVE AfterLastRun(_, _)
\* line.split(label)[-1]
AfterLastRun(line, label) ==
    LET i == FindRun(line, label)
    IN  IF i = 0 THEN line
        ELSE AfterLastRun(SubSeq(line, i + Len(label), Len(line)), label)

\* line.strip().replace("Nature of Payment ", ""): the label is removed
\* where a blank follows it, that is where it does not end the line
RemoveNature(line) ==
    LET label == <<"Nature", "of", "Payment">>
        i == FindRun(line, label)
    IN  IF i = 0 \/ i + Len(label) > Len(line) THEN line
        ELSE RemoveRuns(SubSeq(line, 1, Len(line) - 1), label) \o <<line[Len(line)]>>

\* g(x) when x was returned, the exception of x otherwise
Then(x, G(_)) == IF x.exc = "" THEN G(x.val) ELSE x

\* the value expressions of the dict display of lines 94-106, in order
HdfcField(text, n) ==
    CASE n = 1 -> Then(LineAt(text, 12), LastToken)
      [] n = 2 -> Then(LineAt(text, 7), LAMBDA l : Returned(RemoveNature(l)))
      [] n = 3 -> Then(LineAt(text, 9),
                       LAMBDA l : ToFloat(RemoveRuns(l, <<"Basic", "Tax">>)))
      [] n = 4 -> Then(Then(LineAt(text, 14), LAMBDA l : TokenAt(l, 1)), ToFloat)
      [] n = 5 -> Then(Then(LineAt(text, 12), LAMBDA l : TokenAt(l, 1)), ToFloat)
      [] n = 6 -> Then(Then(LineAt(text, 15), LAMBDA l : TokenAt(l, 3)), ToFloat)
      [] n = 7 -> Then(LineAt(text, 16),
                       LAMBDA l : ToFloat(RemoveRuns(BeforeRun(l, <<"Drawn", "on">>),
                                                     <<"TOTAL">>)))
      [] n = 8 -> Then(LineAt(text, 16),
                       LAMBDA l : Returned(AfterLastRun(l, <<"Drawn", "on">>)))
      [] n = 9 -> Then(LineAt(text, 19), LastToken)
      [] n = 10 -> Then(Then(LineAt(text, 10), LastToken), ToInt)
      [] n = 11 -> Then(Then(LineAt(text, 13), LastToken), ToInt)

HdfcKeys ==
    <<"Date of Receipt", "Nature of Payment", "Basic Tax", "Interest", "Penalty",
      "Fee (Sec. 234E)", "TOTAL Amount", "Drawn on", "Payment Realisation Date",
      "Challan No", "Challan Serial No.">>

\* lines 92-106: the dict, or the exception of the first value expression
\* that raises
parse_hdfc_bank_text(raw_text) ==
    LET n == Len(HdfcKeys)
        bad == {i \in 1..n : HdfcField(raw_text, i).exc # ""}
    IN  IF bad = {}
        THEN Returned([k \in Range(HdfcKeys) |->
                 HdfcField(raw_text, CHOOSE i \in 1..n : HdfcKeys[i] = k).val])
        ELSE HdfcField(raw_text, CHOOSE i \in bad : \A j \in bad : i <= j)

-----------------------------------------------------------------------------
(* The positional specification: parse_hdfc_bank_text on a reference       *)
(* receipt (lines 0-19 as the parser expects them, and the empty line that *)
(* follows the last "\n"), cut to any length of at least one line (split  *)
(* never returns an empty list), with one line replaced or one inserted.   *)

HdfcReference ==
    <<<<"HDFC", "BANK">>,
      <<"Taxpayers", "Counterfoil">>,
      <<"TAN", "MUMA12345B">>,
      <<"Received", "from", "ACME", "LTD">>,
      <<"Assessment", "Year", "2024-25">>,
      <<"Major", "Head", "0021">>,
      <<"Minor", "Head", "200">>,
      <<"Nature", "of", "Payment", "94C">>,
      <<"Description", "of", "Tax">>,
      <<"Basic", "Tax", "1,000.00">>,
      <<"Surcharge", "0.00", "Challan", "No", "12345">>,
      <<"Education", "Cess", "0.00">>,
      <<"Penalty", "0.00", "Date", "of", "Receipt", "01/02/2024">>,
      <<"Others", "0.00", "Challan", "Serial", "No", "00042">>,
      <<"Interest", "50.00", "BSR", "Code", "0510308">>,
      <<"Fee", "u/s", "234E", "200.00">>,
      <<"TOTAL", "1,250.00", "Drawn", "on", "HDFC", "Bank">>,
      <<"Rupees", "One", "Thousand">>,
      <<"Debit", "Account", "XX99">>,
      <<"Payment", "Realisation", "Date", "02/02/2024">>,
      <<>>>>

HdfcVariants ==
    {<<>>,
     <<"Interest", "abc">>,
     <<"n/a">>,
     <<"Basic", "Tax", "1,", "000.00">>,
     <<"Fee", "1.5", "u/s", "12">>,
     <<"TOTAL", "Drawn", "on", "Drawn", "on", "1,2">>}

Prefix(text, n) == SubSeq(text, 1, n)
ReplaceLine(text, k, line) == [text EXCEPT ![k] = line]
InsertLine(text, k, line) ==
    SubSeq(text, 1, k - 1) \o <<line>> \o SubSeq(text, k, Len(text))

HdfcTexts ==
    LET n == Len(HdfcReference)
        edited == {HdfcReference}
                    \cup {ReplaceLine(HdfcReference, k, v) : k \in 1..n, v \in HdfcVariants}
                    \cup {InsertLine(HdfcReference, k, <<>>) : k \in 1..n}
    IN  {Prefix(t, m) : t \in edited, m \in 1..n}

InitHdfc ==
    /\ arg \in HdfcTexts
    /\ ret = <<>>
    /\ called = FALSE
    /\ BatchIdle
    /\ ScanIdle

CallHdfc ==
    /\ ~called
    /\ ret' = parse_hdfc_bank_text(arg)
    /\ called' = TRUE
    /\ UNCHANGED <<arg, batchVars, scanVars>>

NextHdfc == CallHdfc

SpecHdfc == InitHdfc /\ [][NextHdfc]_vars

\* the reference receipt parses to its eleven fields
HdfcReferenceParsed ==
    (called /\ arg = HdfcReference) =>
        /\ ret.exc = ""
        /\ ret.val["Basic Tax"] = 100000
        /\ ret.val["TOTAL Amount"] = 125000
        /\ ret.val["Fee (Sec. 234E)"] = 20000
        /\ ret.val["Challan Serial No."] = 42
        /\ ret.val["Drawn on"] = <<"HDFC", "Bank">>
        /\ ret.val["Nature of Payment"] = <<"94C">>

\* the highest line index the parser reads is that of the last line but one
\* of the reference receipt
TooShort(text) == Len(text) + 1 < Len(HdfcReference)

\* a text long enough, with an unparsable number where a numeric field is
\* read
NumericFieldNames ==
    {"Basic Tax", "Interest", "Penalty", "Fee (Sec. 234E)", "TOTAL Amount",
     "Challan No", "Challan Serial No."}
BadNumber(text) ==
    /\ ~TooShort(text)
    /\ \E i \in 1..Len(HdfcKeys) :
           /\ HdfcKeys[i] \in NumericFieldNames
           /\ HdfcField(text, i).exc = "ValueError"

\* what an error that identifies its cause would name: a field of the
\* record, or the missing line
HdfcCauses ==
    Range(HdfcKeys) \cup {"line 7", "line 9", "line 10", "line 12", "line 13",
                          "line 14", "line 15", "line 16", "line 19"}

\* C8: a text with fewer lines than the highest line index used, or with an
\* unparsable number at a numeric field's position, fails with an error
\* that identifies the offending field or the missing line, and yields no
\* record.
C8_FailureNamesCause ==
    (called /\ (TooShort(arg) \/ BadNumber(arg))) =>
        /\ ret.exc # ""
        /\ \E c \in HdfcCauses : c \in Range(ret.msg)

\* such a text does fail: the parser raises and returns no record
HdfcBadTextRaises ==
    (called /\ (TooShort(arg) \/ BadNumber(arg))) =>
        ret.exc \in {"IndexError", "ValueError"}

-----------------------------------------------------------------------------
(* The main processing section, lines 191-237. *)

\* process_hdfc_bank (lines 84-89) and process_income_tax (lines 109-114):
\* the text of the document (of one page), or the decoder's exception; the
\* "\n" that line 88 adds after the page leaves an empty last line
process_hdfc_bank(pdf) ==
    IF pdf.readable THEN Returned(pdf.text \o <<<<>>>>)
    ELSE Raised("PDFSyntaxError", OpenErrorMsg)
process_income_tax(pdf) ==
    IF pdf.readable THEN Returned(pdf.text) ELSE Raised("PdfReadError", OpenErrorMsg)

\* pd.concat(frames, ignore_index=True): the rows of the frames, in order
ConcatFrames(frames) == Concat(frames)

\* lines 199-212: the body of the try, up to combined_df
CombinedFrame(opt, pay, pdf) ==
    IF opt = "TDS Returns"
    THEN Returned(ConcatFrames(<<extract_details_from_pdf(pdf),
                                 extract_table_from_pdf(pdf)>>))
    ELSE IF opt = "TDS Payments" /\ pay = "HDFC Bank"
    THEN Then(Then(process_hdfc_bank(pdf), parse_hdfc_bank_text),
              LAMBDA parsed_data : Returned(<<parsed_data>>))
    ELSE IF opt = "TDS Payments" /\ pay = "Income Tax Department"
    THEN Then(process_income_tax(pdf),
              LAMBDA raw_text : Returned(<<parse_income_tax_text(raw_text)>>))
    ELSE Raised("ValueError", <<"Invalid option selected.">>)

\* line 214
PrependFrame(frames, df) == <<df>> \o frames
AppendFrame(frames, df) == Append(frames, df)

\* line 219: st.error(f"Error processing '{pdf_file.name}': {e}")
ErrorEntry(pdf, message) == [name |-> pdf.name, msg |-> message]

\* the documents that can be uploaded
TdsText ==
    <<<<"Form", "No.", "26Q">>, <<"for", "the", "period", "Q1">>,
      <<"(From", "01/04/23", "to", "30/06/23">>,
      <<"Form", "No.", "24Q">>, <<"Date:", "15/07/2023">>>>
TdsGood ==
    Doc("tds.pdf", TRUE, TdsText,
        << << <<HeaderRow, DataRow1>> >>, << <<HeaderRow, DataRow2, ShortRow>> >> >>)
TdsNoTable == Doc("cover.pdf", TRUE, <<<<"Form", "No.", "26Q">>>>, << <<>> >>)
HdfcGood ==
    Doc("hdfc.pdf", TRUE, Prefix(HdfcReference, Len(HdfcReference) - 1), <<>>)
HdfcCut == Doc("cut.pdf", TRUE, Prefix(HdfcReference, 10), <<>>)
ItrGood ==
    Doc("itd.pdf", TRUE,
        <<<<"Nature of Payment", ":", " ", "TDS on Salary">>,
          <<"Challan No", ":", "00123">>,
          <<"Total (A+B+C+D+E+F)", "Rs", "1,250">>>>, <<>>)
Corrupt == Doc("bad.pdf", FALSE, <<>>, <<>>)

DocSamples == {TdsGood, TdsNoTable, HdfcGood, HdfcCut, ItrGood, Corrupt}

\* the sidebar selections; the last one is the selection the final else of
\* line 211 is written for
Selections ==
    {<<"TDS Returns", None>>, <<"TDS Payments", "HDFC Bank">>,
     <<"TDS Payments", "Income Tax Department">>, <<"TDS Payments", "Other">>}

InitBatch ==
    /\ \E sel \in Selections : option = sel[1] /\ payment_option = sel[2]
    /\ uploaded_files \in SeqsUpTo(DocSamples, MaxDocs)
    /\ idx = 0
    /\ extracted_data = <<>>
    /\ st_errors = <<>>
    /\ progress = 0
    /\ final_combined_df = <<>>
    /\ shown = "none"
    /\ pc = "submit"
    /\ UnitIdle
    /\ ScanIdle

\* line 191, files uploaded: the loop starts
StartExtraction ==
    /\ pc = "submit"
    /\ uploaded_files # <<>>
    /\ pc' = "loop"
    /\ UNCHANGED <<option, payment_option, uploaded_files, idx, extracted_data,
                   st_errors, progress, final_combined_df, shown, unitVars, scanVars>>

\* lines 236-237, no file uploaded
NoFiles ==
    /\ pc = "submit"
    /\ uploaded_files = <<>>
    /\ shown' = "info"
    /\ pc' = "done"
    /\ UNCHANGED <<option, payment_option, uploaded_files, idx, extracted_data,
                   st_errors, progress, final_combined_df, unitVars, scanVars>>

\* lines 197-219: one iteration of the loop, its try and its except
ProcessFile ==
    /\ pc = "loop"
    /\ idx < Len(uploaded_files)
    /\ LET pdf_file == uploaded_files[idx + 1]
           combined_df == CombinedFrame(option, payment_option, pdf_file)
       IN  IF combined_df.exc = ""
           THEN /\ extracted_data' = AppendFrame(extracted_data, combined_df.val)
                /\ progress' = idx + 1
                /\ UNCHANGED st_errors
           ELSE /\ st_errors' = Append(st_errors, ErrorEntry(pdf_file, combined_df.msg))
                /\ UNCHANGED <<extracted_data, progress>>
    /\ idx' = idx + 1
    /\ UNCHANGED <<option, payment_option, uploaded_files, final_combined_df,
                   shown, pc, unitVars, scanVars>>

\* lines 222-235: the results section, after the loop
DisplayResults ==
    /\ pc = "loop"
    /\ idx = Len(uploaded_files)
    /\ IF extracted_data # <<>>
       THEN /\ final_combined_df' = ConcatFrames(extracted_data)
            /\ shown' = "table"
       ELSE /\ shown' = "warning"
            /\ UNCHANGED final_combined_df
    /\ pc' = "done"
    /\ UNCHANGED <<option, payment_option, uploaded_files, idx, extracted_data,
                   st_errors, progress, unitVars, scanVars>>

Next == StartExtraction \/ NoFiles \/ ProcessFile \/ DisplayResults

Spec == InitBatch /\ [][Next]_vars

-----------------------------------------------------------------------------
(* What the claims about a batch say. *)

IsErrorRow(row) == "Error" \in DOMAIN row
ErrorRows(df) == SelectSeq(df, IsErrorRow)
DataRows(df) == SelectSeq(df, LAMBDA r : ~IsErrorRow(r))

Finished == pc = "done" /\ uploaded_files # <<>>

\* a parser raises while document pdf is processed under the selection
ParserRaises(pdf) ==
    IF option = "TDS Returns"
    THEN ~pdf.readable \/ SixCellRows(pdf.pages) = <<>>
    ELSE IF option = "TDS Payments" /\ payment_option = "HDFC Bank"
    THEN ~pdf.readable \/ parse_hdfc_bank_text(pdf.text).exc # ""
    ELSE IF option = "TDS Payments" /\ payment_option = "Income Tax Department"
    THEN ~pdf.readable
    ELSE TRUE

FailingDocs == {i \in 1..Len(uploaded_files) : ParserRaises(uploaded_files[i])}

\* the table of the batch made of document pdf alone
AloneRows(pdf) ==
    LET c == CombinedFrame(option, payment_option, pdf)
    IN  IF c.exc = "" THEN c.val ELSE <<>>

\* C1: when the loop has finished every document was processed, the rows
\* of every document whose parsers did not raise are in the unified table,
\* and exactly one error entry (a reported error or an Error row) exists
\* for each document whose parser raised.
C1_OneErrorPerFailingDoc ==
    Finished =>
        /\ idx = Len(uploaded_files)
        /\ \A i \in 1..Len(uploaded_files) :
               i \notin FailingDocs =>
                   Range(AloneRows(uploaded_files[i])) \subseteq Range(final_combined_df)
        /\ Len(st_errors) + Len(ErrorRows(final_combined_df))
               = Cardinality(FailingDocs)

\* C2: under every selection an exception raised inside a parser is caught
\* at the per-document boundary only: the documents whose parser raised are
\* exactly those reported there, each with its name, and no parser turned
\* its own exception into a row.
C2_CaughtOnlyAtBoundary ==
    Finished =>
        /\ Len(st_errors) = Cardinality(FailingDocs)
        /\ \A i \in FailingDocs :
               \E k \in 1..Len(st_errors) : st_errors[k].name = uploaded_files[i].name
        /\ \A k \in 1..Len(extracted_data) : ErrorRows(extracted_data[k]) = <<>>

\* C3: after the loop the batch is reported as "no data extracted", with
\* no table shown, exactly when no document produced a successful row.
C3_NoDataIffNoRows ==
    Finished =>
        /\ shown \in {"warning", "table"}
        /\ shown = "warning" <=> DataRows(ConcatFrames(extracted_data)) = <<>>
        /\ shown = "warning" => final_combined_df = <<>>

\* the line-item rows of a decoded TDS Returns document: the six-cell rows
\* in order, less a leading header when another row follows it, less the
\* rows with six empty cells
LineItems(pages) ==
    LET six == SixCellRows(pages)
    IN  NonBlank(IF six # <<>> /\ IsHeader(six[1]) /\ Len(six) >= 2
                 THEN Tail(six) ELSE six)

IsFieldRecord(row) == "Period" \in DOMAIN row

\* C7: the unified table is the tables of the documents taken alone, one
\* after the other in submission order, nothing merged or dropped (so two
\* uploads of one document give its rows twice); within a decoded TDS
\* Returns document the field record comes first, and the line-item rows
\* follow in their order.
C7_RowsInSubmissionOrder ==
    (Finished /\ shown = "table") =>
        /\ final_combined_df =
               Concat([i \in 1..Len(uploaded_files) |-> AloneRows(uploaded_files[i])])
        /\ \A i \in 1..Len(uploaded_files) :
               LET pdf == uploaded_files[i]
                   block == SubSeq(final_combined_df,
                                   Len(Concat([j \in 1..(i - 1) |->
                                                  AloneRows(uploaded_files[j])])) + 1,
                                   Len(Concat([j \in 1..i |->
                                                  AloneRows(uploaded_files[j])])))
               IN  (option = "TDS Returns" /\ pdf.readable) =>
                       /\ block # <<>>
                       /\ IsFieldRecord(block[1])
                       /\ \A k \in 2..Len(block) : ~IsFieldRecord(block[k])
                       /\ DataRows(Tail(block)) = LineItems(pdf.pages)

C7_Witness ==
    /\ Finished /\ shown = "table" /\ option = "TDS Returns"
    /\ uploaded_files = <<TdsGood, Corrupt, TdsGood>>
    /\ Len(final_combined_df) = 10
    /\ SubSeq(final_combined_df, 1, 4) = SubSeq(final_combined_df, 7, 10)
    /\ IsFieldRecord(final_combined_df[1])
    /\ final_combined_df[2]["Sr. No."] = "1"

=============================================================================
